---- MODULE Spec2Model ----
(***************************************************************************)
(* Execution orchestrator of the code artifact: the Run action of          *)
(* src/artifacts/code/client.tsx, the script backend of                    *)
(* src/lib/webcontainer/provider.tsx (single-flight WebContainer boot,     *)
(* executeJsCode, executeTypeScript, compileTsWithTsc) and the two         *)
(* provider components that boot the container on mount.                   *)
(*                                                                         *)
(* JavaScript is single-threaded: one action is the code that runs from    *)
(* one resumption (an event, or the settling of an awaited promise) to the *)
(* next await.  A string is modelled as the sequence of its pieces, so     *)
(* that join and template concatenation are sequence concatenation and the *)
(* empty string (falsy in JavaScript) is the empty sequence.               *)
(***************************************************************************)
EXTENDS Integers, Sequences, FiniteSets, TLC

\* ---------------------------------------------------------------- bounds
MaxRuns == 2         \* Run clicks over the session
MaxChunks == 2       \* chunks a spawned node process emits
MaxLines == 2        \* lines the Python interpreter prints
MaxClock == 2        \* last millisecond the clock reaches
MaxTextLines == 4    \* lines of a streamed text

NumProviders == 2    \* 1: components/webcontainer-provider.tsx, 2: lib/webcontainer/provider.tsx

Runs == 1..MaxRuns
Providers == 1..NumProviders
\* one promise per getWebContainer call at most
PromiseIds == 1..(MaxRuns + NumProviders)

\* ---------------------------------------------------------------- texts
RunningJsText == <<"Running JavaScript in WebContainer...">>
RunningCodeText(language) ==
    <<"Running ", IF language = "typescript" THEN "TypeScript" ELSE "JavaScript", " code...">>
ErrorPrefix == <<"Error: ">>
ClientNoOutputText == <<"Code executed successfully with no output">>
ProviderNoOutputText == <<"Code executed successfully (no output)">>
ExecutionFailedText == <<"Execution failed">>
TsCompileFailedText ==
    <<"TypeScript compilation failed - could not generate JavaScript file">>
ImagePrefix == "data:image/png;base64"

\* what the environment can hand to the program
Languages == {"python", "javascript", "typescript"}
\* message of a rejection reason (err.message): the sandbox and interpreter
\* APIs reject with Errors that carry a non-empty message
ErrMsgs == {<<"boom">>}
\* the k-th chunk of a process's output stream (distinct, so order shows)
ChunkNames == <<"a", "b", "c", "d">>
ChunkAt(k) == <<ChunkNames[k]>>
\* the k-th line delivered to the batched stdout handler: text lines and
\* PNG data URIs alternate
LineAt(k) == IF k % 2 = 1 THEN <<"out", ChunkNames[k]>>
             ELSE <<ImagePrefix, ",iVBOR", ChunkNames[k]>>
\* progress messages of loadPackagesFromImports
Messages == {<<"Loading numpy">>}

VARIABLES
    webcontainerInstance,  \* the module-level singleton: 0 (null) or a promise id
    bootPromise,           \* promise id -> none|booting|mounting|spawning|installing|resolved|rejected
    bootError,             \* promise id -> message of its rejection reason
    bootCount,             \* calls of WebContainer.boot
    installSpawnCount,     \* calls of webcontainer.spawn('npm', ['install', ...])
    loaded,                \* webcontainerContext.loaded
    installFailed,         \* the boot callback has logged a failed provisioning
    providerPromise,       \* provider -> promise its getWebContainer call returned (0: none)
    outputs,               \* metadata.outputs, the tracker
    nextRun,               \* the next generateUUID() value
    now,                   \* the value Date.now() returns
    streamParts,           \* code-delta parts of the data stream not yet handled
    rawContent,            \* streamPart.content of the last code-delta part handled
    content,               \* the artifact's content, which the Run action reads
    metadataLanguage,      \* metadata.language
    runs                   \* run id -> the locals of its onClick invocation, with
                           \* rejected (an awaited operation's rejection reached a
                           \* catch block) and termWrites (the terminal statuses
                           \* the run has written) kept as history

vars == <<webcontainerInstance, bootPromise, bootError, bootCount, installSpawnCount,
          loaded, installFailed, providerPromise, outputs, nextRun, now, streamParts,
          rawContent, content, metadataLanguage, runs>>

bootVars == <<webcontainerInstance, bootPromise, bootError, bootCount,
              installSpawnCount, loaded, installFailed>>
providerVars == <<providerPromise>>
artifactVars == <<streamParts, rawContent, content, metadataLanguage>>

\* ------------------------------------------------- lib/utils/code-markers
\* A text is the sequence of its lines, which is what split('\n') returns,
\* and a line the sequence of its pieces.  The pieces are chosen so that a
\* marker the classifier looks for is a whole piece and no other piece
\* contains one.
EmptyString == << <<>> >>
\* the three backticks of a markdown fence (FENCE below)
Fence == "[fence]"
\* pieces \w+ matches
Words == {"python", "PY", "ts", "JavaScript", "ruby"}
\* the lines a streamed text is made of
Lines ==
    { <<>>,                                   \* an empty line
      <<Fence>>,                              \* a fence without tag
      <<Fence, "python">>,
      <<" ", Fence, "PY", " ">>,              \* indented, upper case alias, trailing blank
      <<Fence, "ts">>,
      <<Fence, "JavaScript">>,
      <<Fence, "ruby">>,                      \* a tag that is not recognized
      <<"x = 1">>,                            \* no marker
      <<"print(", "x)">>,                     \* a Python marker
      <<"let n", ": number", " = 1">>,        \* a TypeScript marker
      <<"class A", "<", "T", ">", " ", "extends", " B">> }
Texts == UNION {[1..n -> Lines] : n \in 1..MaxTextLines}

\* String.prototype.split('\n')
Split(code) == code
\* Array.prototype.slice(1, -1)
Slice(lines) == SubSeq(lines, 2, Len(lines) - 1)
\* Array.prototype.join('\n'): joining no line at all gives the empty string
JoinLines(lines) == IF lines = <<>> THEN EmptyString ELSE lines

\* \s
IsSpace(piece) == piece = " "
IsBlank(line) == \A j \in 1..Len(line) : IsSpace(line[j])
RECURSIVE TrimStart(_)
TrimStart(s) == IF s # <<>> /\ IsSpace(Head(s)) THEN TrimStart(Tail(s)) ELSE s
RECURSIVE TrimEnd(_)
TrimEnd(s) == IF s # <<>> /\ IsSpace(s[Len(s)]) THEN TrimEnd(SubSeq(s, 1, Len(s) - 1)) ELSE s
\* String.prototype.trim()
Trim(s) == TrimEnd(TrimStart(s))
\* String.prototype.toLowerCase()
LowerPiece(piece) ==
    CASE piece = "PY" -> "py"
      [] piece = "JavaScript" -> "javascript"
      [] OTHER -> piece
ToLowerCase(s) == [j \in 1..Len(s) |-> LowerPiece(s[j])]

\* a line of the shape \s*FENCE(\w*)\s* : <<the captured tag>>, else <<>>
FenceLine(line) ==
    LET l == TrimStart(line)
    IN  IF l = <<>> \/ Head(l) # Fence THEN <<>>
        ELSE LET rest == Tail(l)
             IN  IF IsBlank(rest) THEN << <<>> >>
                 ELSE IF Head(rest) \in Words /\ IsBlank(Tail(rest))
                      THEN << <<Head(rest)>> >>
                      ELSE <<>>

\* code.match(/^\s*FENCE(\w*)\s*\n/): <<>> for null, else <<match[1]>>.  The
\* pattern is anchored at the start of the text, \s* also runs over line
\* ends, and the fence line must be followed by a line end.
CodeBlockRegexMatch(code) ==
    LET lines == Split(code)
        ks == {k \in 1..(Len(lines) - 1) :
                  /\ \A i \in 1..(k - 1) : IsBlank(lines[i])
                  /\ FenceLine(lines[k]) # <<>>}
    IN  IF ks = {} THEN <<>> ELSE FenceLine(lines[CHOOSE k \in ks : TRUE])

\* String.prototype.includes(marker)
Includes(text, marker) ==
    \E i \in 1..Len(text) : \E j \in 1..Len(text[i]) : text[i][j] = marker

\* faulty variant: the TypeScript markers are looked for first
DetectLanguageFromContent_TsFirst(text) ==
    IF \/ Includes(text, ": string") \/ Includes(text, ": number")
       \/ Includes(text, ": boolean") \/ Includes(text, "interface ")
       \/ Includes(text, "type ")
       \/ Includes(text, "<") /\ Includes(text, ">") /\ Includes(text, "extends")
    THEN "typescript"
    ELSE IF \/ Includes(text, "def ") \/ Includes(text, "import ")
            \/ Includes(text, "print(")
            \/ Includes(text, "if __name__ == \"__main__\"")
         THEN "python"
         ELSE "javascript"

\* detectLanguageFromContent(content)
DetectLanguageFromContent(text) ==
    IF \/ Includes(text, "def ")
       \/ Includes(text, "import ")
       \/ Includes(text, "print(")
       \/ Includes(text, "if __name__ == \"__main__\"")
    THEN "python"
    ELSE IF \/ Includes(text, ": string")
            \/ Includes(text, ": number")
            \/ Includes(text, ": boolean")
            \/ Includes(text, "interface ")
            \/ Includes(text, "type ")
            \/ Includes(text, "<") /\ Includes(text, ">") /\ Includes(text, "extends")
         THEN "typescript"
         ELSE "javascript"

\* faulty variant: a tag that is not recognized is returned as the language
ParseCodeBlockMarkers_TagAsLanguage(code) ==
    LET match == CodeBlockRegexMatch(code)
    IN  IF match # <<>>
        THEN LET langTag == Trim(ToLowerCase(match[1]))
                 cleanedCode == JoinLines(Slice(Split(code)))
             IN  [cleanedCode |-> cleanedCode,
                  language |->
                      IF langTag = <<"python">> \/ langTag = <<"py">> THEN "python"
                      ELSE IF langTag = <<"typescript">> \/ langTag = <<"ts">>
                           THEN "typescript"
                           ELSE IF langTag = <<"javascript">> \/ langTag = <<"js">>
                                THEN "javascript"
                                ELSE IF langTag = <<>>
                                     THEN DetectLanguageFromContent(cleanedCode)
                                     ELSE langTag[1]]
        ELSE [cleanedCode |-> code, language |-> DetectLanguageFromContent(code)]

\* parseCodeBlockMarkers(code)
ParseCodeBlockMarkers(code) ==
    LET match == CodeBlockRegexMatch(code)
    IN  IF match # <<>>
        THEN LET langTag == Trim(ToLowerCase(match[1]))
                 cleanedCode == JoinLines(Slice(Split(code)))
             IN  [cleanedCode |-> cleanedCode,
                  language |->
                      IF langTag = <<"python">> \/ langTag = <<"py">> THEN "python"
                      ELSE IF langTag = <<"typescript">> \/ langTag = <<"ts">>
                           THEN "typescript"
                           ELSE IF langTag = <<"javascript">> \/ langTag = <<"js">>
                                THEN "javascript"
                                ELSE DetectLanguageFromContent(cleanedCode)]
        ELSE [cleanedCode |-> code, language |-> DetectLanguageFromContent(code)]

\* ---------------------------------------------------------------- helpers
Text(value) == [type |-> "text", value |-> value]

RECURSIVE Join(_)
\* Array.prototype.join(''): the chunks concatenated in array order
Join(chunks) == IF chunks = <<>> THEN <<>> ELSE Head(chunks) \o Join(Tail(chunks))

\* a || b on strings
OrElse(a, b) == IF a # <<>> THEN a ELSE b

IsPrefix(s, t) == Len(s) <= Len(t) /\ SubSeq(t, 1, Len(s)) = s

\* metadata.outputs.filter((output) => output.id !== runId)
FilterOut(outs, runId) == SelectSeq(outs, LAMBDA output : output.id # runId)

\* faulty variant: the updated record is appended without removing the old one
UpdateRun_NoFilter(outs, runId, contents, status) ==
    Append(outs, [id |-> runId, contents |-> contents, status |-> status])

\* faulty variant: the update extends the contents already recorded for the run
UpdateRun_KeepContents(outs, runId, contents, status) ==
    LET old == SelectSeq(outs, LAMBDA output : output.id = runId)
        kept == IF old = <<>> THEN <<>> ELSE old[1].contents
    IN  Append(FilterOut(outs, runId),
               [id |-> runId, contents |-> kept \o contents, status |-> status])

\* faulty variant: the records of the other runs are not spread into the new array
UpdateRun_OnlyThisRun(outs, runId, contents, status) ==
    <<[id |-> runId, contents |-> contents, status |-> status]>>

\* faulty variant: an update only rewrites a record that is still in the tracker
UpdateRun_IfPresent(outs, runId, contents, status) ==
    IF \E i \in 1..Len(outs) : outs[i].id = runId
    THEN Append(FilterOut(outs, runId),
                [id |-> runId, contents |-> contents, status |-> status])
    ELSE outs

\* faulty variant: an update rewrites the run's record where it stands
UpdateRun_InPlace(outs, runId, contents, status) ==
    IF \E i \in 1..Len(outs) : outs[i].id = runId
    THEN [i \in 1..Len(outs) |->
             IF outs[i].id = runId
             THEN [id |-> runId, contents |-> contents, status |-> status]
             ELSE outs[i]]
    ELSE Append(outs, [id |-> runId, contents |-> contents, status |-> status])

\* [...metadata.outputs.filter(...), {id: runId, contents, status}]
UpdateRun(outs, runId, contents, status) ==
    Append(FilterOut(outs, runId), [id |-> runId, contents |-> contents, status |-> status])

InTracker(r) == \E i \in 1..Len(outputs) : outputs[i].id = r
Rec(r) == outputs[CHOOSE i \in 1..Len(outputs) : outputs[i].id = r]

\* faulty variant: the spec's name for the first status
InitialStatus_Queued == "queued"

\* status of the record appended when Run is clicked
InitialStatus == "in_progress"

NoResult == [output |-> <<>>, error |-> <<>>]

InitRun == [pc |-> "idle", language |-> "javascript", wcPromise |-> 0, timestamp |-> 0,
            tscExit |-> 0, compiled |-> FALSE, rmFailed |-> FALSE,
            procOut |-> <<>>, outputChunks |-> <<>>, exitCode |-> 0,
            stdout |-> <<>>, result |-> NoResult, outputContent |-> <<>>,
            rejected |-> FALSE, termWrites |-> <<>>]

\* the state after the module is loaded, the providers are constructed and
\* initialize has set the metadata; no Run clicked yet
Constructed ==
    /\ webcontainerInstance = 0
    /\ bootPromise = [p \in PromiseIds |-> "none"]
    /\ bootError = [p \in PromiseIds |-> <<>>]
    /\ bootCount = 0
    /\ installSpawnCount = 0
    /\ loaded = FALSE
    /\ installFailed = FALSE
    /\ providerPromise = [p \in Providers |-> 0]
    /\ outputs = <<>>
    /\ nextRun = 1
    /\ now = 1
    /\ rawContent = EmptyString
    /\ content = EmptyString
    /\ metadataLanguage = "javascript"
    /\ runs = [r \in Runs |-> InitRun]

\* no code is being streamed into the artifact
Init ==
    /\ Constructed
    /\ streamParts = <<>>

\* ------------------------------------------------- getWebContainer and boot
\* faulty variant: a rejected boot promise is treated as absent and boot is retried
BootNeeded_RetryRejected ==
    \/ webcontainerInstance = 0
    \/ bootPromise[webcontainerInstance] = "rejected"

\* !webcontainerInstance
BootNeeded == webcontainerInstance = 0

\* getWebContainer() in the browser: the first call creates the promise
\* WebContainer.boot(...).then(...) and stores it; every call returns the
\* stored promise (webcontainerInstance' is the value returned).
GetWebContainer ==
    /\ IF BootNeeded
       THEN /\ bootCount' = bootCount + 1
            /\ webcontainerInstance' = bootCount + 1
            /\ bootPromise' = [bootPromise EXCEPT ![bootCount + 1] = "booting"]
       ELSE UNCHANGED <<webcontainerInstance, bootPromise, bootCount>>
    /\ UNCHANGED <<bootError, installSpawnCount, loaded, installFailed>>

\* WebContainer.boot resolves: the then-callback starts and calls mount
BootResolve(p) ==
    /\ bootPromise[p] = "booting"
    /\ bootPromise' = [bootPromise EXCEPT ![p] = "mounting"]
    /\ UNCHANGED <<webcontainerInstance, bootError, bootCount, installSpawnCount, loaded,
                   installFailed, providerVars, artifactVars, now, outputs, nextRun, runs>>

\* WebContainer.boot rejects: the chained promise rejects with the same reason
BootReject(p, msg) ==
    /\ bootPromise[p] = "booting"
    /\ bootPromise' = [bootPromise EXCEPT ![p] = "rejected"]
    /\ bootError' = [bootError EXCEPT ![p] = msg]
    /\ UNCHANGED <<webcontainerInstance, bootCount, installSpawnCount, loaded,
                   installFailed, providerVars, artifactVars, now, outputs, nextRun, runs>>

\* mount resolves: npm install is spawned inside the try block
MountResolve(p) ==
    /\ bootPromise[p] = "mounting"
    /\ installSpawnCount' = installSpawnCount + 1
    /\ bootPromise' = [bootPromise EXCEPT ![p] = "spawning"]
    /\ UNCHANGED <<webcontainerInstance, bootError, bootCount, loaded,
                   installFailed, providerVars, artifactVars, now, outputs, nextRun, runs>>

\* mount rejects outside the try block: the boot promise rejects
MountReject(p, msg) ==
    /\ bootPromise[p] = "mounting"
    /\ bootPromise' = [bootPromise EXCEPT ![p] = "rejected"]
    /\ bootError' = [bootError EXCEPT ![p] = msg]
    /\ UNCHANGED <<webcontainerInstance, bootCount, installSpawnCount, loaded,
                   installFailed, providerVars, artifactVars, now, outputs, nextRun, runs>>

\* spawn('npm', ...) resolves: the callback awaits installProcess.exit
InstallSpawnResolve(p) ==
    /\ bootPromise[p] = "spawning"
    /\ bootPromise' = [bootPromise EXCEPT ![p] = "installing"]
    /\ UNCHANGED <<webcontainerInstance, bootError, bootCount, installSpawnCount, loaded,
                   installFailed, providerVars, artifactVars, now, outputs, nextRun, runs>>

\* spawn('npm', ...) rejects: caught and logged, boot goes on and resolves
InstallSpawnReject(p) ==
    /\ bootPromise[p] = "spawning"
    /\ installFailed' = TRUE
    /\ loaded' = TRUE
    /\ bootPromise' = [bootPromise EXCEPT ![p] = "resolved"]
    /\ UNCHANGED <<webcontainerInstance, bootError, bootCount, installSpawnCount,
                   providerVars, artifactVars, now, outputs, nextRun, runs>>

\* faulty variant: a failed npm install rejects the boot promise
InstallExit_RejectOnFailure(p, installExitCode) ==
    /\ bootPromise[p] = "installing"
    /\ installExitCode \in {0, 1}
    /\ installFailed' = (installExitCode # 0)
    /\ IF installExitCode # 0
       THEN /\ bootPromise' = [bootPromise EXCEPT ![p] = "rejected"]
            /\ bootError' = [bootError EXCEPT ![p] = <<"npm install failed">>]
            /\ UNCHANGED loaded
       ELSE /\ bootPromise' = [bootPromise EXCEPT ![p] = "resolved"]
            /\ loaded' = TRUE
            /\ UNCHANGED bootError
    /\ UNCHANGED <<webcontainerInstance, bootCount, installSpawnCount,
                   providerVars, artifactVars, now, outputs, nextRun, runs>>

\* installProcess.exit resolves with any code: a nonzero code is logged, boot
\* resolves
InstallExit(p, installExitCode) ==
    /\ bootPromise[p] = "installing"
    /\ installExitCode \in {0, 1}
    /\ installFailed' = (installExitCode # 0)
    /\ loaded' = TRUE
    /\ bootPromise' = [bootPromise EXCEPT ![p] = "resolved"]
    /\ UNCHANGED <<webcontainerInstance, bootError, bootCount, installSpawnCount,
                   providerVars, artifactVars, now, outputs, nextRun, runs>>

\* ------------------------------------------------- provider components
\* useEffect of a provider component on mount: getWebContainer().then(...).
\* The callbacks only set the component's own display state.
ProviderMount(p) ==
    /\ providerPromise[p] = 0
    /\ GetWebContainer
    /\ providerPromise' = [providerPromise EXCEPT ![p] = webcontainerInstance']
    /\ UNCHANGED <<artifactVars, now, outputs, nextRun, runs>>

\* ------------------------------------------------- Run: onClick
\* faulty variant: only javascript takes the script branch
Script_OnlyJavascript(language) == language = "javascript"

\* language === 'javascript' || language === 'typescript'
Script(language) == language = "javascript" \/ language = "typescript"

\* generateUUID(): a token no earlier run was given
generateUUID == nextRun

\* onClick up to its first await.  The run record is appended; a script run
\* then replaces it twice with a progress text and calls executeJsOrTs,
\* which awaits the dynamic import; a Python run awaits loadPyodide.
Trigger(language) ==
    /\ nextRun <= MaxRuns
    /\ language \in Languages
    /\ LET runId == generateUUID
           appended == Append(outputs, [id |-> runId, contents |-> <<>>,
                                        status |-> InitialStatus])
       IN  /\ outputs' =
                 IF Script(language)
                 THEN UpdateRun(
                          UpdateRun(appended, runId, <<Text(RunningJsText)>>,
                                    "loading_packages"),
                          runId, <<Text(RunningCodeText(language))>>, "loading_packages")
                 ELSE appended
           /\ runs' = [runs EXCEPT ![runId].pc = IF Script(language) THEN "import"
                                                  ELSE "loadPyodide",
                                   ![runId].language = language]
    /\ nextRun' = nextRun + 1
    /\ UNCHANGED <<bootVars, providerVars, artifactVars, now>>

\* faulty variant: clearing keeps the records of runs that have not ended
Clear_KeepInFlight ==
    /\ outputs' = SelectSeq(outputs, LAMBDA output : output.status \in {"completed", "failed"})
    /\ UNCHANGED <<bootVars, providerVars, artifactVars, now, nextRun, runs>>

\* Console's setConsoleOutputs: setMetadata({...metadata, outputs: []})
Clear ==
    /\ outputs' = <<>>
    /\ UNCHANGED <<bootVars, providerVars, artifactVars, now, nextRun, runs>>

\* ------------------------------------------------- script backend
\* faulty variant: the rejection escapes the try block and the run never reports
Caught_Lost(r, msg) ==
    runs' = [runs EXCEPT ![r].pc = "lost"]

\* a catch block of executeJsOrTs / executeJsCode / executeTypeScript (or the
\* !jsFilename return): the call returns {output: '', error} to onClick
Caught(r, msg) ==
    runs' = [runs EXCEPT ![r].pc = "report",
                         ![r].timestamp = 0,
                         ![r].rejected = TRUE,
                         ![r].result = [output |-> <<>>, error |-> msg]]

\* the dynamic import resolves: executeJsCode / executeTypeScript is called
\* and awaits getWebContainer()
ImportResolve(r) ==
    /\ runs[r].pc = "import"
    /\ GetWebContainer
    /\ runs' = [runs EXCEPT ![r].pc = "awaitBoot", ![r].wcPromise = webcontainerInstance']
    /\ UNCHANGED <<providerVars, artifactVars, now, outputs, nextRun>>

ImportReject(r, msg) ==
    /\ runs[r].pc = "import"
    /\ Caught(r, msg)
    /\ UNCHANGED <<bootVars, providerVars, artifactVars, now, outputs, nextRun>>

\* `code-${timestamp}.js`
JsFilename(timestamp) == <<"code-", timestamp, ".js">>

\* `code-${timestamp}.ts`
TsFilename(timestamp) == <<"code-", timestamp, ".ts">>

\* tsFilename.replace(/\.ts$/, '.js')
CompiledFilename(tsFilename) ==
    IF tsFilename[Len(tsFilename)] = ".ts"
    THEN [tsFilename EXCEPT ![Len(tsFilename)] = ".js"]
    ELSE tsFilename

\* the paths run r has chosen in the sandbox and not yet removed: the source
\* file, and for TypeScript the file tsc compiles it to
FileNames(r) ==
    IF runs[r].timestamp = 0 THEN {}
    ELSE IF runs[r].language = "typescript"
    THEN {TsFilename(runs[r].timestamp), CompiledFilename(TsFilename(runs[r].timestamp))}
    ELSE {JsFilename(runs[r].timestamp)}

\* the clock advances by a millisecond
Tick ==
    /\ now < MaxClock
    /\ now' = now + 1
    /\ UNCHANGED <<bootVars, providerVars, artifactVars, outputs, nextRun, runs>>

\* faulty variant: the rejection of the boot promise is swallowed and the run goes on
BootAwaited_Unchecked(r) ==
    /\ runs[r].pc = "awaitBoot"
    /\ bootPromise[runs[r].wcPromise] \in {"resolved", "rejected"}
    /\ runs' = [runs EXCEPT ![r].pc = IF runs[r].language = "typescript"
                                      THEN "tsWrite" ELSE "writeFile",
                            ![r].timestamp = now]
    /\ UNCHANGED <<bootVars, providerVars, artifactVars, now, outputs, nextRun>>

\* the boot promise is resolved: const timestamp = Date.now(), the file name
\* is chosen and the source written (executeJsCode), or compileTsWithTsc
\* starts by writing the .ts file
BootAwaited(r) ==
    /\ runs[r].pc = "awaitBoot"
    /\ bootPromise[runs[r].wcPromise] = "resolved"
    /\ runs' = [runs EXCEPT ![r].pc = IF runs[r].language = "typescript"
                                      THEN "tsWrite" ELSE "writeFile",
                            ![r].timestamp = now]
    /\ UNCHANGED <<bootVars, providerVars, artifactVars, now, outputs, nextRun>>

\* the boot promise is rejected: await throws into the catch block
BootAwaitRejected(r) ==
    /\ runs[r].pc = "awaitBoot"
    /\ bootPromise[runs[r].wcPromise] = "rejected"
    /\ Caught(r, bootError[runs[r].wcPromise])
    /\ UNCHANGED <<bootVars, providerVars, artifactVars, now, outputs, nextRun>>

\* executeJsCode: fs.writeFile resolves, spawn('node', [jsFilename]) is called
WriteFileResolve(r) ==
    /\ runs[r].pc = "writeFile"
    /\ runs' = [runs EXCEPT ![r].pc = "spawn"]
    /\ UNCHANGED <<bootVars, providerVars, artifactVars, now, outputs, nextRun>>

WriteFileReject(r, msg) ==
    /\ runs[r].pc = "writeFile"
    /\ Caught(r, msg)
    /\ UNCHANGED <<bootVars, providerVars, artifactVars, now, outputs, nextRun>>

\* compileTsWithTsc: the .ts file is written, tsconfig.json is written next
TsWriteResolve(r) ==
    /\ runs[r].pc = "tsWrite"
    /\ runs' = [runs EXCEPT ![r].pc = "tsConfig"]
    /\ UNCHANGED <<bootVars, providerVars, artifactVars, now, outputs, nextRun>>

\* compileTsWithTsc: tsconfig.json is written, npx tsc is spawned
TsConfigResolve(r) ==
    /\ runs[r].pc = "tsConfig"
    /\ runs' = [runs EXCEPT ![r].pc = "tscSpawn"]
    /\ UNCHANGED <<bootVars, providerVars, artifactVars, now, outputs, nextRun>>

\* compileTsWithTsc: the tsc process is spawned, its exit is awaited
TscSpawnResolve(r) ==
    /\ runs[r].pc = "tscSpawn"
    /\ runs' = [runs EXCEPT ![r].pc = "tscRun"]
    /\ UNCHANGED <<bootVars, providerVars, artifactVars, now, outputs, nextRun>>

\* compileTsWithTsc: a write or the spawn rejects; the outer catch returns
\* undefined and executeTypeScript returns the compilation-failed result
CompileReject(r) ==
    /\ runs[r].pc \in {"tsWrite", "tsConfig", "tscSpawn"}
    /\ Caught(r, TsCompileFailedText)
    /\ UNCHANGED <<bootVars, providerVars, artifactVars, now, outputs, nextRun>>

\* the text tsc prints for a source it rejects
TscDiagnostics == <<"error TS2322: Type 'string' is not assignable to type 'number'.">>

\* the chunks the collector of compileTsWithTsc holds when tsc has exited:
\* the diagnostics of a failed compilation, nothing otherwise
ErrorChunks(exitCode) == IF exitCode # 0 THEN <<TscDiagnostics>> ELSE <<>>

\* tsc exits, having emitted the compiled file or not: with either exit code
\* the compiled file is read next (errorChunks.join('') is only logged)
TscExit(r, exitCode, emitted) ==
    /\ runs[r].pc = "tscRun"
    /\ exitCode \in {0, 1}
    /\ emitted \in BOOLEAN
    /\ runs' = [runs EXCEPT ![r].pc = "tscRead",
                            ![r].tscExit = exitCode,
                            ![r].compiled = emitted]
    /\ UNCHANGED <<bootVars, providerVars, artifactVars, now, outputs, nextRun>>

\* faulty variant: a nonzero exit code of tsc fails the run without looking for the
\* compiled file
TscReadResolve_ZeroOnly(r) ==
    /\ runs[r].pc = "tscRead"
    /\ runs[r].compiled
    /\ IF runs[r].tscExit = 0
       THEN runs' = [runs EXCEPT ![r].pc = "dbgRead"]
       ELSE Caught(r, TsCompileFailedText)
    /\ UNCHANGED <<bootVars, providerVars, artifactVars, now, outputs, nextRun>>

\* the compiled file is readable: compileTsWithTsc returns jsFilename and
\* executeTypeScript reads it again for the log
TscReadResolve(r) ==
    /\ runs[r].pc = "tscRead"
    /\ runs[r].compiled
    /\ runs' = [runs EXCEPT ![r].pc = "dbgRead"]
    /\ UNCHANGED <<bootVars, providerVars, artifactVars, now, outputs, nextRun>>

\* the compiled file is not readable: compileTsWithTsc returns undefined
TscReadReject(r) ==
    /\ runs[r].pc = "tscRead"
    /\ ~runs[r].compiled
    /\ Caught(r, TsCompileFailedText)
    /\ UNCHANGED <<bootVars, providerVars, artifactVars, now, outputs, nextRun>>

\* the logging read settles either way; spawn('node', [jsFilename]) is called
\* (the locals of compileTsWithTsc are gone)
DbgRead(r, ok) ==
    /\ runs[r].pc = "dbgRead"
    /\ ok \in BOOLEAN
    /\ runs' = [runs EXCEPT ![r].pc = "spawn",
                            ![r].tscExit = 0,
                            ![r].compiled = FALSE]
    /\ UNCHANGED <<bootVars, providerVars, artifactVars, now, outputs, nextRun>>

\* spawn resolves: the output stream is piped to the collector, exit awaited
SpawnResolve(r) ==
    /\ runs[r].pc = "spawn"
    /\ runs' = [runs EXCEPT ![r].pc = "running"]
    /\ UNCHANGED <<bootVars, providerVars, artifactVars, now, outputs, nextRun>>

SpawnReject(r, msg) ==
    /\ runs[r].pc = "spawn"
    /\ Caught(r, msg)
    /\ UNCHANGED <<bootVars, providerVars, artifactVars, now, outputs, nextRun>>

\* the node process writes a chunk to its output stream
ProcEmit(r) ==
    /\ runs[r].pc = "running"
    /\ Len(runs[r].procOut) + Len(runs[r].outputChunks) < MaxChunks
    /\ runs' = [runs EXCEPT ![r].procOut =
                    Append(@, ChunkAt(Len(runs[r].procOut) + Len(runs[r].outputChunks) + 1))]
    /\ UNCHANGED <<bootVars, providerVars, artifactVars, now, outputs, nextRun>>

\* WritableStream.write(chunk): outputChunks.push(chunk)
Deliver(r) ==
    /\ runs[r].procOut # <<>>
    /\ runs' = [runs EXCEPT ![r].procOut = Tail(@),
                            ![r].outputChunks = Append(@, Head(runs[r].procOut))]
    /\ UNCHANGED <<bootVars, providerVars, artifactVars, now, outputs, nextRun>>

\* process.exit resolves: cleanup starts with fs.rm of the source file
ProcExit(r, exitCode) ==
    /\ runs[r].pc = "running"
    /\ exitCode \in {0, 1}
    /\ runs' = [runs EXCEPT ![r].exitCode = exitCode,
                            ![r].pc = IF runs[r].language = "typescript"
                                      THEN "rmTs" ELSE "rm"]
    /\ UNCHANGED <<bootVars, providerVars, artifactVars, now, outputs, nextRun>>

\* executeTypeScript: fs.rm(tsFilename) settles (.catch swallows a failure)
RmTs(r, ok) ==
    /\ runs[r].pc = "rmTs"
    /\ ok \in BOOLEAN
    /\ runs' = [runs EXCEPT ![r].pc = "rm"]
    /\ UNCHANGED <<bootVars, providerVars, artifactVars, now, outputs, nextRun>>

\* faulty variant: the synthesized text is returned whatever was collected
ScriptResult_AlwaysNoOutput(exitCode, stdout) ==
    IF exitCode # 0
    THEN [output |-> OrElse(stdout, <<>>), error |-> ExecutionFailedText]
    ELSE [output |-> ProviderNoOutputText, error |-> <<>>]

\* the value executeJsCode / executeTypeScript returns after the process exits
ScriptResult(exitCode, stdout) ==
    IF exitCode # 0
    THEN [output |-> OrElse(stdout, <<>>), error |-> ExecutionFailedText]
    ELSE [output |-> OrElse(stdout, ProviderNoOutputText), error |-> <<>>]

\* faulty variant: a failed removal is not swallowed and reaches the catch block
Rm_Throws(r, ok) ==
    /\ runs[r].pc = "rm"
    /\ ok \in BOOLEAN
    /\ IF ok
       THEN LET stdout == Join(runs[r].outputChunks)
            IN  runs' = [runs EXCEPT ![r].pc = "report",
                                     ![r].timestamp = 0,
                                     ![r].stdout = stdout,
                                     ![r].procOut = <<>>,
                                     ![r].outputChunks = <<>>,
                                     ![r].result = ScriptResult(runs[r].exitCode, stdout)]
       ELSE \E msg \in ErrMsgs : Caught(r, msg)
    /\ UNCHANGED <<bootVars, providerVars, artifactVars, now, outputs, nextRun>>

\* fs.rm(jsFilename) settles (.catch swallows a failure): the collected
\* chunks are joined and the result returned.  The collector array is not
\* read again, so chunks written to it later are dropped here.
Rm(r, ok) ==
    /\ runs[r].pc = "rm"
    /\ ok \in BOOLEAN
    /\ LET stdout == Join(runs[r].outputChunks)
       IN  runs' = [runs EXCEPT ![r].pc = "report",
                                ![r].timestamp = 0,
                                ![r].rmFailed = ~ok,
                                ![r].stdout = stdout,
                                ![r].procOut = <<>>,
                                ![r].outputChunks = <<>>,
                                ![r].result = ScriptResult(runs[r].exitCode, stdout)]
    /\ UNCHANGED <<bootVars, providerVars, artifactVars, now, outputs, nextRun>>

\* error ? `Error: ${error}` : output || 'Code executed successfully with no output'
ReportValue(result) ==
    IF result.error # <<>>
    THEN ErrorPrefix \o result.error
    ELSE OrElse(result.output, ClientNoOutputText)

\* success ? 'completed' : 'failed', with success = !error
ReportStatus(result) == IF result.error = <<>> THEN "completed" ELSE "failed"

\* faulty variant: the return after the script branch is missing, so the run goes on
\* into the Python path
AfterReport_FallThrough == "loadPyodide"

\* the return that ends onClick after the script branch
AfterReport == "done"

\* executeJsOrTs has returned: the terminal update of a script run
Report(r) ==
    /\ runs[r].pc = "report"
    /\ outputs' = UpdateRun(outputs, r, <<Text(ReportValue(runs[r].result))>>,
                            ReportStatus(runs[r].result))
    /\ runs' = [runs EXCEPT ![r].pc = AfterReport,
                            ![r].tscExit = 0,
                            ![r].compiled = FALSE,
                            ![r].rmFailed = FALSE,
                            ![r].result = NoResult,
                            ![r].termWrites = Append(@, ReportStatus(runs[r].result))]
    /\ UNCHANGED <<bootVars, providerVars, artifactVars, now, nextRun>>

\* ------------------------------------------------- Python backend
\* loadPyodide resolves: setStdout installs the collector and
\* loadPackagesFromImports is awaited
LoadPyodideResolve(r) ==
    /\ runs[r].pc = "loadPyodide"
    /\ runs' = [runs EXCEPT ![r].pc = "loadPackages"]
    /\ UNCHANGED <<bootVars, providerVars, artifactVars, now, outputs, nextRun>>

\* messageCallback: the record is replaced by one carrying the message
MessageCallback(r, message) ==
    /\ runs[r].pc = "loadPackages"
    /\ message \in Messages
    /\ outputs' = UpdateRun(outputs, r, <<Text(message)>>, "loading_packages")
    /\ UNCHANGED <<bootVars, providerVars, artifactVars, now, nextRun, runs>>

\* loadPackagesFromImports resolves: detectRequiredHandlers puts 'basic'
\* first, and its preamble is run
LoadPackagesResolve(r) ==
    /\ runs[r].pc = "loadPackages"
    /\ runs' = [runs EXCEPT ![r].pc = "basic"]
    /\ UNCHANGED <<bootVars, providerVars, artifactVars, now, outputs, nextRun>>

\* a preamble's runPythonAsync resolves: the next preamble (matplotlib, then
\* setup_matplotlib_output(), when detectRequiredHandlers found matplotlib
\* in the content) or the code runs
HandlerResolve(r, usesPlt) ==
    /\ runs[r].pc \in {"basic", "plt", "pltSetup"}
    /\ usesPlt \in BOOLEAN
    /\ runs[r].pc # "basic" => usesPlt
    /\ runs' = [runs EXCEPT ![r].pc =
                    IF runs[r].pc = "basic"
                    THEN (IF usesPlt THEN "plt" ELSE "runPython")
                    ELSE IF runs[r].pc = "plt" THEN "pltSetup" ELSE "runPython"]
    /\ UNCHANGED <<bootVars, providerVars, artifactVars, now, outputs, nextRun>>

\* output.startsWith('data:image/png;base64') ? 'image' : 'text'
OutputType(output) ==
    IF Len(output) >= 1 /\ output[1] = ImagePrefix THEN "image" ELSE "text"

\* the batched stdout handler: outputContent.push({type, value})
Stdout(r) ==
    /\ runs[r].pc = "runPython"
    /\ Len(runs[r].outputContent) < MaxLines
    /\ LET output == LineAt(Len(runs[r].outputContent) + 1)
       IN  runs' = [runs EXCEPT ![r].outputContent =
                       Append(@, [type |-> OutputType(output), value |-> output])]
    /\ UNCHANGED <<bootVars, providerVars, artifactVars, now, outputs, nextRun>>

\* runPythonAsync(cleanedCode) resolves: the terminal update of a Python run
RunPythonResolve(r) ==
    /\ runs[r].pc = "runPython"
    /\ outputs' = UpdateRun(outputs, r, runs[r].outputContent, "completed")
    /\ runs' = [runs EXCEPT ![r].pc = "done",
                            ![r].termWrites = Append(@, "completed")]
    /\ UNCHANGED <<bootVars, providerVars, artifactVars, now, nextRun>>

\* calls of globalThis.loadPyodide so far: onClick makes one for every
\* Python run, before its first await
LoadPyodideCalls ==
    Cardinality({r \in Runs : runs[r].language = "python" /\ runs[r].pc # "idle"})

PyAwaiting == {"loadPyodide", "loadPackages", "basic", "plt", "pltSetup", "runPython"}

\* an awaited interpreter call rejects: the catch block of onClick
PyReject(r, msg) ==
    /\ runs[r].pc \in PyAwaiting
    /\ msg \in ErrMsgs
    /\ outputs' = UpdateRun(outputs, r, <<Text(msg)>>, "failed")
    /\ runs' = [runs EXCEPT ![r].pc = "done",
                            ![r].rejected = TRUE,
                            ![r].termWrites = Append(@, "failed")]
    /\ UNCHANGED <<bootVars, providerVars, artifactVars, now, nextRun>>

\* ------------------------------------------------- specification
BootStep ==
    \E p \in PromiseIds :
        \/ BootResolve(p)
        \/ \E msg \in ErrMsgs : BootReject(p, msg)
        \/ MountResolve(p)
        \/ \E msg \in ErrMsgs : MountReject(p, msg)
        \/ InstallSpawnResolve(p)
        \/ InstallSpawnReject(p)
        \/ \E code \in {0, 1} : InstallExit(p, code)

\* the resumptions of run r: each is the settling of the operation it awaits
RunStep(r) ==
    \/ ImportResolve(r)
    \/ \E msg \in ErrMsgs : ImportReject(r, msg)
    \/ BootAwaited(r)
    \/ BootAwaitRejected(r)
    \/ WriteFileResolve(r)
    \/ \E msg \in ErrMsgs : WriteFileReject(r, msg)
    \/ TsWriteResolve(r)
    \/ TsConfigResolve(r)
    \/ TscSpawnResolve(r)
    \/ CompileReject(r)
    \/ \E code \in {0, 1}, emitted \in BOOLEAN : TscExit(r, code, emitted)
    \/ TscReadResolve(r)
    \/ TscReadReject(r)
    \/ \E ok \in BOOLEAN : DbgRead(r, ok)
    \/ SpawnResolve(r)
    \/ \E msg \in ErrMsgs : SpawnReject(r, msg)
    \/ \E code \in {0, 1} : ProcExit(r, code)
    \/ \E ok \in BOOLEAN : RmTs(r, ok)
    \/ \E ok \in BOOLEAN : Rm(r, ok)
    \/ Report(r)
    \/ LoadPyodideResolve(r)
    \/ LoadPackagesResolve(r)
    \/ \E usesPlt \in BOOLEAN : HandlerResolve(r, usesPlt)
    \/ RunPythonResolve(r)
    \/ \E msg \in ErrMsgs : PyReject(r, msg)

\* what the environment does to run r without resuming it
RunEvent(r) ==
    \/ ProcEmit(r)
    \/ Deliver(r)
    \/ \E message \in Messages : MessageCallback(r, message)
    \/ Stdout(r)

Next ==
    \/ \E language \in Languages : Trigger(language)
    \/ Clear
    \/ \E p \in Providers : ProviderMount(p)
    \/ BootStep
    \/ \E r \in Runs : RunStep(r)
    \/ \E r \in Runs : RunEvent(r)

Spec == Init /\ [][Next]_vars

\* Every awaited backend operation eventually resolves or rejects: the boot
\* chain and each run's pending resumption are weakly fair.
FairSpec ==
    /\ Spec
    /\ WF_vars(BootStep)
    /\ \A r \in Runs : WF_vars(RunStep(r))

\* the same program with wall-clock time passing between its steps; under
\* Spec every step happens within one reading of the clock
ClockSpec == Init /\ [][Next \/ Tick]_vars

\* ------------------------------------------------- the artifact's content
\* onStreamPart for a code-delta part: the cleaned code becomes the
\* artifact's content and the language found goes to the metadata
OnStreamPart ==
    /\ streamParts # <<>>
    /\ LET info == ParseCodeBlockMarkers(Head(streamParts))
       IN  /\ rawContent' = Head(streamParts)
           /\ content' = info.cleanedCode
           /\ metadataLanguage' = info.language
    /\ streamParts' = Tail(streamParts)
    /\ UNCHANGED <<bootVars, providerVars, now, outputs, nextRun, runs>>

\* isDisabled of the Run action
isDisabled(code) == ParseCodeBlockMarkers(code).language \notin Languages

\* the Run button is clicked: a disabled action does not call onClick;
\* onClick classifies the artifact's content
Click ==
    /\ ~isDisabled(content)
    /\ Trigger(ParseCodeBlockMarkers(content).language)

\* one text is about to be streamed into the artifact
ClassifyInit ==
    /\ Constructed
    /\ \E part \in Texts : streamParts = <<part>>

ClassifyNext ==
    \/ OnStreamPart
    \/ Click

\* the front end alone: a text is streamed into the artifact and Run is
\* clicked on it; the backends take no step
ClassifySpec == ClassifyInit /\ [][ClassifyNext]_vars

\* ------------------------------------------------- properties
Terminal == {"completed", "failed"}
InFlight(r) == runs[r].pc \notin {"idle", "done"}

\* the promises handed out so far by getWebContainer
Received ==
    {runs[r].wcPromise : r \in Runs} \cup {providerPromise[p] : p \in Providers}

\* C1: over any interleaving of getWebContainer calls from script runs and
\* provider mounts, WebContainer.boot is called at most once, the npm
\* install is spawned at most once, and every caller gets the same promise.
C1_SingleFlightBoot ==
    /\ bootCount <= 1
    /\ installSpawnCount <= 1
    /\ \A p \in Received : p = 0 \/ p = webcontainerInstance
    /\ Cardinality(Received \ {0}) <= 1

\* two runs and a provider hold the promise of a boot that has rejected, and
\* one of the runs has already been failed by it
C1_Witness ==
    /\ bootCount = 1
    /\ bootPromise[1] = "rejected"
    /\ runs[1].wcPromise = 1 /\ runs[1].pc = "done"
    /\ runs[2].wcPromise = 1 /\ runs[2].pc = "awaitBoot"
    /\ \E p \in Providers : providerPromise[p] = 1

\* C2: no two records of the tracker share a run id.
C2_UniqueIds ==
    \A i, j \in 1..Len(outputs) : i # j => outputs[i].id # outputs[j].id

\* two runs in flight, both recorded, the one triggered first updated last
C2_Witness ==
    /\ Len(outputs) = 2
    /\ outputs[1].id = 2 /\ outputs[2].id = 1
    /\ InFlight(1) /\ InFlight(2)
    /\ outputs[2].status = "loading_packages"

\* C3: once a run's record is completed or failed, no later step changes it
\* (a bulk clear may remove it, nothing puts it back), and a run writes a
\* terminal status at most once.
C3_TerminalIsFinal ==
    [][\A r \in Runs :
          /\ Len(runs'[r].termWrites) <= 1
          /\ (InTracker(r) /\ Rec(r).status \in Terminal)
                => (InTracker(r)' => Rec(r)' = Rec(r))
          /\ (runs[r].termWrites # <<>> /\ ~InTracker(r)) => ~InTracker(r)'
      ]_vars

\* a failed run's record is still there after the other run updated the
\* tracker and finished
C3_Witness ==
    \E r \in Runs, q \in Runs :
        /\ r # q
        /\ runs[r].pc = "done" /\ runs[q].pc = "done"
        /\ Len(outputs) = 2
        /\ outputs[1].id = r /\ outputs[1].status = "failed"
        /\ outputs[2].id = q /\ outputs[2].status = "completed"

Statuses == {"in_progress", "loading_packages", "completed", "failed"}

\* C5 as stated: every recorded status is one of queued, loading_packages,
\* completed, failed.
C5_Original ==
    \A i \in 1..Len(outputs) :
        outputs[i].status \in {"queued", "loading_packages", "completed", "failed"}

\* C5 amended: every recorded status is one of in_progress, loading_packages,
\* completed, failed, and a run that has not been updated since it was
\* triggered is recorded as in_progress with no outputs.
C5_Amended ==
    /\ \A i \in 1..Len(outputs) : outputs[i].status \in Statuses
    /\ \A r \in Runs :
          (runs[r].pc = "loadPyodide" /\ InTracker(r))
              => Rec(r) = [id |-> r, contents |-> <<>>, status |-> "in_progress"]

\* a Python run just triggered, next to a run already updated
C5_Witness ==
    \E r \in Runs, q \in Runs :
        /\ runs[r].pc = "loadPyodide" /\ InTracker(r)
        /\ Rec(r).status = "in_progress"
        /\ InTracker(q) /\ Rec(q).status = "loading_packages"

\* the record of r was written by this step
Updated(r) == InTracker(r)' /\ (~InTracker(r) \/ Rec(r)' # Rec(r))

\* C6 as stated: at each update the outputs recorded for a run extend the
\* outputs recorded before.
C6_Original ==
    [][\A r \in Runs :
          (InTracker(r) /\ InTracker(r)')
              => IsPrefix(Rec(r).contents, Rec(r)'.contents)
      ]_vars

\* C6 amended: an update replaces the outputs recorded for the run by the
\* events it supplies: none when the run is triggered, the collector's events
\* when a Python run completes, one text event otherwise.  Only the Python
\* collector is append-only.
C6_Amended ==
    [][\A r \in Runs :
          /\ IsPrefix(runs[r].outputContent, runs'[r].outputContent)
          /\ Updated(r) =>
                IF Rec(r)'.status = "in_progress"
                THEN Rec(r)'.contents = <<>>
                ELSE IF Rec(r)'.status = "completed" /\ runs[r].language = "python"
                THEN Rec(r)'.contents = runs'[r].outputContent
                ELSE /\ Len(Rec(r)'.contents) = 1
                     /\ Rec(r)'.contents[1].type = "text"
      ]_vars

\* a completed Python run whose record holds its two captured lines and no
\* progress message, and a script run whose record holds only its output
C6_Witness ==
    \E r \in Runs, q \in Runs :
        /\ runs[r].language = "python" /\ runs[r].pc = "done"
        /\ InTracker(r) /\ Rec(r).status = "completed"
        /\ Len(Rec(r).contents) = 2 /\ Rec(r).contents = runs[r].outputContent
        /\ runs[q].language = "javascript" /\ runs[q].pc = "done"
        /\ InTracker(q) /\ Rec(q).contents = <<Text(<<"a", "b">>)>>

\* C7 as stated: a Python run that raised ends failed with every captured
\* line kept, followed by one text event carrying the exception message.
C7_Original ==
    \A r \in Runs :
        (runs[r].language = "python" /\ runs[r].pc = "done" /\ runs[r].rejected
            /\ InTracker(r))
        => /\ Rec(r).status = "failed"
           /\ Len(Rec(r).contents) = Len(runs[r].outputContent) + 1
           /\ IsPrefix(runs[r].outputContent, Rec(r).contents)
           /\ Rec(r).contents[Len(Rec(r).contents)].type = "text"
           /\ Rec(r).contents[Len(Rec(r).contents)].value \in ErrMsgs

\* C8 as stated: a Python run that completed without capturing a line has
\* exactly one text event as outputs.
C8_Original ==
    \A r \in Runs :
        (runs[r].language = "python" /\ runs[r].pc = "done" /\ ~runs[r].rejected
            /\ runs[r].outputContent = <<>> /\ InTracker(r))
        => /\ Rec(r).status = "completed"
           /\ Len(Rec(r).contents) = 1
           /\ Rec(r).contents[1].type = "text"
           /\ Rec(r).contents[1].value # <<>>

\* the values of a record's events, concatenated
RecordText(rec) == Join([i \in 1..Len(rec.contents) |-> rec.contents[i].value])

\* sub occurs in s as a contiguous piece
Contains(s, sub) ==
    \E i \in 0..(Len(s) - Len(sub)) : SubSeq(s, i + 1, i + Len(sub)) = sub

\* C9 as stated: a script run whose process exits nonzero ends failed and
\* its record contains the captured standard output and the failure marker.
C9_Original ==
    \A r \in Runs :
        (Script(runs[r].language) /\ runs[r].pc = "done" /\ runs[r].exitCode # 0
            /\ InTracker(r))
        => /\ Rec(r).status = "failed"
           /\ Contains(RecordText(Rec(r)), ExecutionFailedText)
           /\ Contains(RecordText(Rec(r)), runs[r].stdout)

\* C10: a JavaScript run whose process exited with code 0 is completed and
\* its record is one text event: the joined output when non-empty, else the
\* synthesized no-output text.
C10_JsExitZero ==
    \A r \in Runs :
        (runs[r].language = "javascript" /\ runs[r].pc = "done" /\ ~runs[r].rejected
            /\ runs[r].exitCode = 0 /\ InTracker(r))
        => /\ Rec(r).status = "completed"
           /\ runs[r].termWrites = <<"completed">>
           /\ Rec(r).contents =
                 <<Text(IF runs[r].stdout # <<>> THEN runs[r].stdout
                        ELSE ProviderNoOutputText)>>

\* one JavaScript run completed with both chunks, another with no output
C10_Witness ==
    \E r \in Runs, q \in Runs :
        /\ runs[r].language = "javascript" /\ runs[q].language = "javascript"
        /\ runs[r].pc = "done" /\ runs[q].pc = "done"
        /\ ~runs[r].rejected /\ ~runs[q].rejected
        /\ runs[r].exitCode = 0 /\ runs[q].exitCode = 0
        /\ InTracker(r) /\ InTracker(q)
        /\ runs[r].stdout = <<"a", "b">> /\ Rec(r).contents = <<Text(<<"a", "b">>)>>
        /\ runs[q].stdout = <<>> /\ Rec(q).contents = <<Text(ProviderNoOutputText)>>

\* C11 as stated: no two script runs in flight at the same time use the same
\* temp-file path, source or compiled, also when both read the same clock value.
C11_Original ==
    \A r \in Runs, q \in Runs :
        r # q => FileNames(r) \cap FileNames(q) = {}

\* C12 as stated: over any sequence of Python runs the interpreter is booted
\* (loadPyodide invoked) at most once, every run using that one instance.
C12_Original == LoadPyodideCalls <= 1

\* C13: when tsc exits nonzero, a run whose compiled file can be read goes on
\* to spawn the runtime on it, and the terminal status of a run whose runtime
\* was spawned and exited follows the runtime's exit code; a run whose
\* compiled file cannot be read goes straight to its failed report, never
\* spawning the runtime.
C13_TscNonzero ==
    [][\A r \in Runs :
          runs[r].language = "typescript" =>
              /\ (runs[r].tscExit # 0 /\ runs[r].pc = "tscRead" /\ runs'[r].pc # "tscRead") =>
                     IF runs[r].compiled
                     THEN runs'[r].pc = "dbgRead"
                     ELSE /\ runs'[r].pc = "report"
                          /\ runs'[r].rejected
                          /\ ReportStatus(runs'[r].result) = "failed"
              /\ (runs[r].tscExit # 0 /\ runs[r].pc = "dbgRead" /\ runs'[r].pc # "dbgRead") =>
                     runs'[r].pc = "spawn"
              /\ runs[r].pc = "report" => runs'[r].pc \in {"report", "done"}
              /\ (runs[r].pc = "report" /\ runs'[r].pc = "done" /\ InTracker(r)') =>
                     Rec(r)'.status = IF runs[r].rejected \/ runs[r].exitCode # 0
                                      THEN "failed" ELSE "completed"
      ]_vars

\* tsc exited nonzero for both runs: the compiled file of one was there and
\* has been read, so the run is about to spawn the runtime; the compiled file
\* of the other was missing and the run is about to be reported failed
C13_Witness ==
    \E r \in Runs, q \in Runs :
        /\ runs[r].language = "typescript" /\ runs[r].pc = "dbgRead"
        /\ runs[r].tscExit # 0 /\ runs[r].compiled /\ ~runs[r].rejected
        /\ runs[q].language = "typescript" /\ runs[q].pc = "report"
        /\ runs[q].tscExit # 0 /\ ~runs[q].compiled /\ runs[q].rejected
        /\ ReportStatus(runs[q].result) = "failed"

\* C14 as stated: when tsc exits nonzero and no compiled file exists, the
\* record of the failed run contains the diagnostic text captured from the
\* compiler's output stream.
C14_Original ==
    [][\A r \in Runs :
          (runs[r].language = "typescript" /\ runs[r].tscExit # 0 /\ ~runs[r].compiled
              /\ runs[r].pc = "report" /\ runs'[r].pc = "done" /\ InTracker(r)')
          => Contains(RecordText(Rec(r)'), Join(ErrorChunks(runs[r].tscExit)))
      ]_vars

C16_ProvisioningFailureTolerated ==
    installFailed =>
        /\ webcontainerInstance # 0
        /\ bootPromise[webcontainerInstance] = "resolved"
        /\ loaded
        /\ \A r \in Runs :
              runs[r].pc = "awaitBoot" =>
                  /\ runs[r].wcPromise = webcontainerInstance
                  /\ ENABLED BootAwaited(r)

\* provisioning failed, and of two runs that then used the sandbox one has
\* completed and the other's process is running
C16_Witness ==
    /\ installFailed
    /\ \E r \in Runs, q \in Runs :
          /\ runs[r].wcPromise = 1 /\ runs[r].pc = "done"
          /\ runs[r].termWrites = <<"completed">>
          /\ runs[q].wcPromise = 1 /\ runs[q].pc = "running"

\* C17: the removal of a run's temp files settles either way without
\* touching the run's result: after cleanup the result is the one the
\* runtime's exit code and the collected output determine, and so is the
\* record written from it, whether a removal failed or not.
C17_CleanupNeverChangesResult ==
    [][\A r \in Runs :
          /\ (runs[r].pc = "rmTs" /\ runs'[r].pc # "rmTs") =>
                 /\ runs'[r].pc = "rm"
                 /\ runs'[r].exitCode = runs[r].exitCode
                 /\ runs'[r].outputChunks = runs[r].outputChunks
                 /\ ~runs'[r].rejected
          /\ (runs[r].pc = "rm" /\ runs'[r].pc # "rm") =>
                 /\ runs'[r].pc = "report"
                 /\ ~runs'[r].rejected
                 /\ runs'[r].result =
                        ScriptResult(runs[r].exitCode, Join(runs[r].outputChunks))
          /\ (runs[r].pc = "report" /\ ~runs[r].rejected /\ runs'[r].pc = "done"
                 /\ InTracker(r)') =>
                 LET result == ScriptResult(runs[r].exitCode, runs[r].stdout)
                 IN  Rec(r)' = [id |-> r, contents |-> <<Text(ReportValue(result))>>,
                                status |-> ReportStatus(result)]
      ]_vars

\* two runs with the same exit code and the same collected output, the
\* removal of the executed file having failed for one and succeeded for the
\* other, hold the same result
C17_Witness ==
    \E r \in Runs, q \in Runs :
        /\ runs[r].pc = "report" /\ runs[q].pc = "report"
        /\ ~runs[r].rejected /\ ~runs[q].rejected
        /\ runs[r].rmFailed /\ ~runs[q].rmFailed
        /\ runs[r].exitCode = runs[q].exitCode
        /\ runs[r].stdout = <<"a", "b">> /\ runs[q].stdout = <<"a", "b">>
        /\ runs[r].result = runs[q].result

\* C18: a step that writes the record of one run leaves every other run's
\* record as it was: present if it was present, with the same id, outputs
\* and status.
C18_UpdateLeavesOthers ==
    [][\A r \in Runs, q \in Runs :
          (r # q /\ Updated(r)) =>
              /\ InTracker(q)' = InTracker(q)
              /\ InTracker(q) => Rec(q)' = Rec(q)
      ]_vars

\* a TypeScript run was reported failed while the record of a Python run in
\* flight, written before, still shows its progress message
C18_Witness ==
    \E r \in Runs, q \in Runs :
        /\ Len(outputs) = 2
        /\ outputs[1].id = q /\ runs[q].language = "python" /\ InFlight(q)
        /\ outputs[1] = [id |-> q, contents |-> <<Text(<<"Loading numpy">>)>>,
                         status |-> "loading_packages"]
        /\ outputs[2].id = r /\ runs[r].language = "typescript" /\ runs[r].pc = "done"
        /\ outputs[2].status = "failed"

\* C19: a bulk clear leaves the tracker empty, and a step that removes a
\* run's record from the tracker is a bulk clear.
C19_OnlyClearRemoves ==
    [][/\ Clear => outputs' = <<>>
       /\ \A r \in Runs : (InTracker(r) /\ ~InTracker(r)') => Clear
      ]_vars

\* the tracker is empty after a clear: one run had ended and its record is
\* gone, the other is still in flight
C19_Witness ==
    /\ outputs = <<>>
    /\ \E r \in Runs, q \in Runs :
          /\ runs[r].pc = "done" /\ runs[r].termWrites # <<>>
          /\ InFlight(q)

\* the interpreter calls of a Python run: setStdout up to runPythonAsync
PyInvoking == {"loadPackages", "basic", "plt", "pltSetup", "runPython"}

\* C20 as stated: at no time are two Python runs inside an interpreter
\* invocation (package loading, preamble or source execution).
C20_Original ==
    Cardinality({r \in Runs : runs[r].language = "python" /\ runs[r].pc \in PyInvoking}) <= 1

\* where a run can be inside each backend
ScriptCommonPcs == {"import", "awaitBoot", "spawn", "running", "rm", "report"}
JsOnlyPcs == {"writeFile"}
TsOnlyPcs == {"tsWrite", "tsConfig", "tscSpawn", "tscRun", "tscRead", "dbgRead", "rmTs"}

\* C21: a python run is only ever inside the Python backend and never asks
\* for the sandbox; a javascript run is only ever inside executeJsCode and a
\* typescript run only inside executeTypeScript, and neither ever reaches the
\* interpreter or collects interpreter output.
C21_Routing ==
    \A r \in Runs :
        runs[r].pc \notin {"idle", "done"} =>
            /\ runs[r].language = "python" =>
                   /\ runs[r].pc \in PyAwaiting
                   /\ runs[r].wcPromise = 0 /\ runs[r].timestamp = 0
            /\ runs[r].language = "javascript" =>
                   /\ runs[r].pc \in ScriptCommonPcs \cup JsOnlyPcs
                   /\ runs[r].outputContent = <<>>
            /\ runs[r].language = "typescript" =>
                   /\ runs[r].pc \in ScriptCommonPcs \cup TsOnlyPcs
                   /\ runs[r].outputContent = <<>>

\* a Python run executing its source while a TypeScript run is compiling
C21_Witness ==
    \E r \in Runs, q \in Runs :
        /\ runs[r].language = "python" /\ runs[r].pc = "runPython"
        /\ runs[r].outputContent # <<>>
        /\ runs[q].language = "typescript" /\ runs[q].pc = "tscRun"

\* ------------------------------------------------- classification
\* the tags parseCodeBlockMarkers maps to a language
RecognizedTags == {<<"python">>, <<"py">>, <<"typescript">>, <<"ts">>,
                   <<"javascript">>, <<"js">>}
\* the language a recognized tag stands for
CanonicalLanguage(tag) ==
    IF tag \in {<<"python">>, <<"py">>} THEN "python"
    ELSE IF tag \in {<<"typescript">>, <<"ts">>} THEN "typescript"
         ELSE "javascript"
\* the tag on the opening fence of a text, lower-cased; <<>> if it has none
DeclaredTag(code) ==
    LET match == CodeBlockRegexMatch(code)
    IN  IF match = <<>> THEN <<>> ELSE Trim(ToLowerCase(match[1]))
\* markers detectLanguageFromContent looks for
PythonMarkers == {"def ", "import ", "print(", "if __name__ == \"__main__\""}
TsMarkers == {": string", ": number", ": boolean", "interface ", "type "}
HasPythonMarker(text) == \E marker \in PythonMarkers : Includes(text, marker)
HasTsMarker(text) ==
    \/ \E marker \in TsMarkers : Includes(text, marker)
    \/ Includes(text, "<") /\ Includes(text, ">") /\ Includes(text, "extends")
\* a fence that closes a block: three backticks and no tag
IsClosingFence(line) == FenceLine(line) = << <<>> >>
\* the text opens with a fence line that carries a recognized tag
OpensWithRecognizedFence(code) ==
    /\ FenceLine(code[1]) # <<>>
    /\ Trim(ToLowerCase(FenceLine(code[1])[1])) \in RecognizedTags
\* the line of the first closing fence after the opening one, 0 if none
ClosingFenceAt(code) ==
    LET ks == {k \in 2..Len(code) : IsClosingFence(code[k])}
    IN  IF ks = {} THEN 0 ELSE CHOOSE k \in ks : \A j \in ks : k <= j
\* the lines strictly between the opening and the closing fence
LinesBetween(code) == JoinLines(SubSeq(code, 2, ClosingFenceAt(code) - 1))
\* a python fence, at least one line of code, and the closing fence as the
\* last line
FencedPythonSnippet(code) ==
    /\ OpensWithRecognizedFence(code)
    /\ CanonicalLanguage(Trim(ToLowerCase(FenceLine(code[1])[1]))) = "python"
    /\ Len(code) >= 3
    /\ ClosingFenceAt(code) = Len(code)
    /\ \A k \in 2..(Len(code) - 1) : FenceLine(code[k]) = <<>>

\* C22 as stated: a submission whose language is not python, javascript or
\* typescript (its fence declares another tag) has the Run action disabled.
C22_Original ==
    DeclaredTag(rawContent) \notin RecognizedTags \cup {<<>>} => isDisabled(content)

\* C22 amended: the Run action is never disabled, because every text,
\* whatever its fence declares, is classified as python, javascript or
\* typescript; every run record created belongs to a run of one of the three.
C22_Amended ==
    /\ metadataLanguage \in Languages
    /\ ~isDisabled(content)
    /\ \A r \in Runs : InTracker(r) => runs[r].language \in Languages

\* a text fenced as ruby has been streamed and a run was created on it
\* (a python run: before the text arrived the content classified as javascript)
C22_Witness ==
    /\ DeclaredTag(rawContent) = <<"ruby">>
    /\ \E r \in Runs : InTracker(r) /\ runs[r].language = "python"

\* C23 as stated: for a text that opens with a fence line carrying a
\* recognized tag, the cleaned code is exactly the lines strictly between the
\* opening and the closing fence, and the language is the tag's language.
C23_Original ==
    (OpensWithRecognizedFence(rawContent) /\ ClosingFenceAt(rawContent) # 0) =>
        /\ content = LinesBetween(rawContent)
        /\ metadataLanguage =
               CanonicalLanguage(Trim(ToLowerCase(FenceLine(rawContent[1])[1])))

\* C24 as stated: the cleaned code of a fenced python snippet, classified
\* again as the unfenced text it now is, is python.
C24_Original ==
    FencedPythonSnippet(rawContent) =>
        /\ DetectLanguageFromContent(content) = "python"
        /\ ParseCodeBlockMarkers(content).language = "python"

\* C25: a text without fence, or whose fence carries no recognized tag, is
\* classified by its (stripped) body: python if it holds a Python marker,
\* also when it holds a TypeScript marker too; else typescript if it holds a
\* TypeScript marker; else javascript.  The result is one of the three.
C25_HeuristicOrder ==
    DeclaredTag(rawContent) \notin RecognizedTags =>
        /\ HasPythonMarker(content) => metadataLanguage = "python"
        /\ ~HasPythonMarker(content) /\ HasTsMarker(content) =>
               metadataLanguage = "typescript"
        /\ ~HasPythonMarker(content) /\ ~HasTsMarker(content) =>
               metadataLanguage = "javascript"
        /\ metadataLanguage \in Languages

\* an unfenced text with markers of both languages was classified python
C25_Witness ==
    /\ streamParts = <<>>
    /\ CodeBlockRegexMatch(rawContent) = <<>>
    /\ HasPythonMarker(content) /\ HasTsMarker(content)
    /\ metadataLanguage = "python"

\* ------------------------------------------------- output and cleanup
\* C26 as stated: the output a script run returns is the concatenation, in
\* order, of every chunk its process emitted, the chunks not yet written to
\* the collector when the exit code resolved included.
C26_Original ==
    [][\A r \in Runs :
          (runs[r].pc = "rm" /\ runs'[r].pc = "report") =>
              runs'[r].stdout = Join(runs[r].outputChunks \o runs[r].procOut)
      ]_vars

\* where a script run is after a writeFile of its source has resolved and
\* before executeJsOrTs returns
FileWrittenPcs == {"tsConfig", "tscSpawn", "tscRun", "tscRead", "dbgRead",
                   "spawn", "running", "rmTs", "rm"}

\* C27 as stated: a script run that has written its file returns only
\* through the removal of that file, on every exit path.
C27_Original ==
    [][\A r \in Runs :
          (runs[r].pc \in FileWrittenPcs /\ runs'[r].pc = "report") =>
              runs[r].pc = "rm"
      ]_vars

\* ------------------------------------------------- tracker order
\* a step in which run r writes a status to the tracker after its trigger
StatusUpdate(r) ==
    \/ \E message \in Messages : MessageCallback(r, message)
    \/ Report(r)
    \/ RunPythonResolve(r)
    \/ \E msg \in ErrMsgs : PyReject(r, msg)

\* C28: when the record of a run in flight is gone from the tracker (a bulk
\* clear removed it), the run's next status update puts a record for it
\* back: the tracker grows by that one record, no run is triggered, and the
\* ids in the tracker stay unique.
C28_UpdateReinserts ==
    [][\A r \in Runs :
          (StatusUpdate(r) /\ ~InTracker(r)) =>
              /\ InTracker(r)'
              /\ Len(outputs') = Len(outputs) + 1
              /\ nextRun' = nextRun
              /\ C2_UniqueIds'
      ]_vars

\* run 2 is in flight without a record, so the tracker was cleared after
\* both runs were triggered; run 1's record is back
C28_Witness ==
    /\ InFlight(2) /\ ~InTracker(2)
    /\ Len(outputs) = 1 /\ outputs[1].id = 1

\* C29: a step that writes the record of a run leaves that record last in
\* the tracker and the records of all other runs in their former order.
C29_UpdateMovesToEnd ==
    [][\A r \in Runs :
          (StatusUpdate(r) \/ Updated(r)) =>
              /\ outputs' # <<>>
              /\ outputs'[Len(outputs')].id = r
              /\ FilterOut(outputs', r) = FilterOut(outputs, r)
      ]_vars

\* both runs have ended; the run triggered first ended last and stands last
C29_Witness ==
    /\ Len(outputs) = 2
    /\ outputs[1].id = 2 /\ outputs[2].id = 1
    /\ runs[1].pc = "done" /\ runs[2].pc = "done"
    /\ outputs[1].status \in {"completed", "failed"}
    /\ outputs[2].status \in {"completed", "failed"}
====
